---- MODULE Spec2Model ----
(***************************************************************************)
(* A model of the FileOrganiser repository: the extension variant          *)
(* (src/file_organizer.py, class FileOrganizer) and the keyword variant    *)
(* (src/file_organiser_documents.py, classes MappingManager, FileMover and *)
(* FolderOrganizer).                                                       *)
(*                                                                         *)
(* Python strings whose characters the code looks at (file names,          *)
(* extensions, keywords, path components) are sequences of one-character   *)
(* strings: ".pdf" is <<".", "p", "d", "f">>.  A Python dict is a          *)
(* sequence of [k, v] entries in insertion order with unique keys.         *)
(***************************************************************************)
EXTENDS Naturals, Integers, Sequences, FiniteSets, TLC

VARIABLES
  program,             \* which __main__ runs: "ext" or "kw"
  pc,                  \* "new", "ready", "organizing", "done", "raised"
  listing,             \* extension variant: the part of the listdir() snapshot
                       \* still to visit, in the order listdir() gave
  json_file,           \* FileOrganizer.json_file on disk: [exists, doc]
  default_categories,  \* FileOrganizer.default_categories (a live dict)
  categories,          \* FileOrganizer.categories (entries may alias the default)
  location,            \* where each file of the watched folder is now
  dirs,                \* directories that exist under folder_to_watch
  last,                \* what the last call of the extension variant did
  mapping_file,        \* MappingManager.file_path on disk: [exists, doc]
  mapping,             \* MappingManager.mapping
  source_folder,       \* FolderOrganizer.source_folder, a path
  entries,             \* the entries of the source folder: [isdir, at]
  unvisited,           \* keyword variant: the names of the os.listdir()
                       \* snapshot the loop has still to visit
  klast                \* what the last call of the keyword variant did

extvars == <<json_file, default_categories, categories, location, dirs, last>>

kwvars == <<mapping_file, mapping, source_folder, entries, unvisited, klast>>

vars == <<program, pc, listing, extvars, kwvars>>

(***************************************************************************)
(* Strings                                                                 *)
(***************************************************************************)
UpperChars == <<"A", "B", "C", "D", "E", "F", "G", "H", "I", "J", "K", "L", "M",
                "N", "O", "P", "Q", "R", "S", "T", "U", "V", "W", "X", "Y", "Z">>

LowerChars == <<"a", "b", "c", "d", "e", "f", "g", "h", "i", "j", "k", "l", "m",
                "n", "o", "p", "q", "r", "s", "t", "u", "v", "w", "x", "y", "z">>

\* str.lower() on one character
LowerChar(c) ==
  IF \E i \in DOMAIN UpperChars : UpperChars[i] = c
  THEN LowerChars[CHOOSE i \in DOMAIN UpperChars : UpperChars[i] = c]
  ELSE c

\* str.lower()
lower(s) == [i \in DOMAIN s |-> LowerChar(s[i])]

\* Python's  sub in s  on two strings
IsSubstring(sub, s) ==
  \E i \in 0..(Len(s) - Len(sub)) : SubSeq(s, i + 1, i + Len(sub)) = sub

\* str.rfind('.') + 1, or 0 when there is no dot
LastDot(name) ==
  IF \E i \in DOMAIN name : name[i] = "."
  THEN CHOOSE i \in DOMAIN name :
         name[i] = "." /\ \A j \in DOMAIN name : name[j] = "." => j <= i
  ELSE 0

\* os.path.splitext(p)[1] for a path whose last component is name: the text
\* from the last dot on, unless only dots come before that dot
splitext_ext(name) ==
  LET d == LastDot(name) IN
    IF d > 0 /\ \E i \in 1..(d - 1) : name[i] # "."
    THEN SubSeq(name, d, Len(name))
    ELSE <<>>

(***************************************************************************)
(* Dicts as insertion-ordered sequences of entries                         *)
(***************************************************************************)
Keys(d) == {d[i].k : i \in DOMAIN d}

Has(d, k) == \E i \in DOMAIN d : d[i].k = k

IndexOf(d, k) == CHOOSE i \in DOMAIN d : d[i].k = k

Get(d, k) == d[IndexOf(d, k)].v

\* d[k] = v : an existing key keeps its place, a new key goes last
Put(d, k, v) ==
  IF Has(d, k)
  THEN [d EXCEPT ![IndexOf(d, k)].v = v]
  ELSE Append(d, [k |-> k, v |-> v])

(***************************************************************************)
(* The extension variant's schema values                                   *)
(***************************************************************************)
\* a list of extensions, as json.load gives it
ListOf(exts) == [islist |-> TRUE, exts |-> exts]

\* a JSON number (or null, or a boolean) where a list is expected
NotAList == [islist |-> FALSE, exts |-> <<>>]

\* a dict of subcategories
DictOf(items) == [isdict |-> TRUE, items |-> items]

\* any JSON value that is not an object where a dict is expected
NotADict == [isdict |-> FALSE, items |-> <<>>]

Sub(name, exts) == [k |-> name, v |-> ListOf(exts)]

Cat(name, subs) == [k |-> name, v |-> DictOf(subs)]

\* FileOrganizer.__init__: the compiled-in default_categories
DefaultCategories ==
  <<
    Cat("Documents & Data", <<
      Sub(<<"D", "o", "c", "u", "m", "e", "n", "t", "s">>,
        <<<<".", "p", "d", "f">>,
          <<".", "d", "o", "c", "x">>,
          <<".", "t", "x", "t">>,
          <<".", "o", "d", "t">>,
          <<".", "r", "t", "f">>,
          <<".", "h", "t", "m", "l">>,
          <<".", "e", "p", "u", "b">>,
          <<".", "m", "d">>,
          <<".", "t", "e", "x">>,
          <<".", "b", "i", "b">>>>),
      Sub(<<"D", "a", "t", "a", " ", "(", "C", "S", "V", ",", " ", "X", "M", "L", ",", " ", "J", "S", "O", "N", ",", " ", "e", "t", "c", ".", ")">>,
        <<<<".", "c", "s", "v">>,
          <<".", "x", "m", "l">>,
          <<".", "j", "s", "o", "n">>,
          <<".", "y", "a", "m", "l">>>>)>>),
    Cat("Development", <<
      Sub(<<"P", "r", "o", "j", "e", "c", "t">>,
        <<<<".", "p", "y">>,
          <<".", "c", "p", "p">>,
          <<".", "j", "a", "v", "a">>,
          <<".", "j", "s">>,
          <<".", "h", "t", "m", "l">>,
          <<".", "c", "s", "s">>,
          <<".", "r", "b">>,
          <<".", "g", "o">>,
          <<".", "p", "h", "p">>>>)>>),
    Cat("Executables", <<
      Sub(<<"I", "n", "s", "t", "a", "l", "l", "e", "r", "s">>,
        <<<<".", "e", "x", "e">>,
          <<".", "m", "s", "i">>>>),
      Sub(<<"S", "c", "r", "i", "p", "t", "s">>,
        <<<<".", "b", "a", "t">>,
          <<".", "s", "h">>>>)>>),
    Cat("Archives", <<
      Sub(<<"C", "o", "m", "p", "r", "e", "s", "s", "e", "d", " ", "F", "i", "l", "e", "s">>,
        <<<<".", "z", "i", "p">>,
          <<".", "r", "a", "r">>,
          <<".", "t", "a", "r">>,
          <<".", "t", "a", "r", ".", "g", "z">>,
          <<".", "7", "z">>,
          <<".", "g", "z">>>>),
      Sub(<<"B", "a", "c", "k", "u", "p", "s">>,
        <<<<".", "b", "a", "k">>,
          <<".", "b", "a", "c", "k", "u", "p">>>>)>>),
    Cat("Disk Image", <<
      Sub(<<"I", "S", "O", " ", "&", " ", "D", "i", "s", "k", " ", "I", "m", "a", "g", "e", "s">>,
        <<<<".", "i", "s", "o">>,
          <<".", "i", "m", "g">>>>)>>),
    Cat("Presentations", <<
      Sub(<<"P", "o", "w", "e", "r", "P", "o", "i", "n", "t", " ", "F", "i", "l", "e", "s">>,
        <<<<".", "p", "p", "t", "x">>,
          <<".", "k", "e", "y">>,
          <<".", "p", "p", "t">>>>)>>),
    Cat("Spreadsheets", <<
      Sub(<<"E", "x", "c", "e", "l", " ", "a", "n", "d", " ", "C", "S", "V", " ", "F", "i", "l", "e", "s">>,
        <<<<".", "x", "l", "s">>,
          <<".", "x", "l", "s", "x">>,
          <<".", "c", "s", "v">>>>)>>),
    Cat("Other", <<>>)
  >>

(***************************************************************************)
(* Objects in memory.  json.load builds fresh objects; an entry of the     *)
(* working schema whose value IS a dict of default_categories (the same    *)
(* object, not a copy) has ref = "default" and is read through the         *)
(* default.  Lists are never mutated, so their sharing is not tracked.     *)
(***************************************************************************)
Own(k, v) == [k |-> k, ref |-> "own", v |-> v]

Alias(k) == [k |-> k, ref |-> "default", v |-> NotADict]

\* the dict an entry of the working schema refers to
Deref(e, defaults) == IF e.ref = "default" THEN Get(defaults, e.k) ELSE e.v

\* json.dump(categories): the document, by value
Dump(cats, defaults) ==
  [i \in DOMAIN cats |-> [k |-> cats[i].k, v |-> Deref(cats[i], defaults)]]

\* json.load(file): every value a fresh object
Load(doc) == [i \in DOMAIN doc |-> Own(doc[i].k, doc[i].v)]

\* self.default_categories.copy(): a shallow copy, every value shared
ShallowCopy(defaults) == [i \in DOMAIN defaults |-> Alias(defaults[i].k)]

(***************************************************************************)
(* FileOrganizer.sync_categories                                           *)
(***************************************************************************)
RECURSIVE SyncSubs_Overwrite(_, _, _)
\* SyncSubs with the isinstance test of line 156 lost: every default
\* subcategory is set to the default's list
SyncSubs_Overwrite(items, dsubs, j) ==
  IF j > Len(dsubs)
  THEN [items |-> items, updated |-> FALSE]
  ELSE LET sk == dsubs[j].k
           sv == dsubs[j].v
           missing == ~Has(items, sk)
           rest == SyncSubs_Overwrite(Put(items, sk, sv), dsubs, j + 1)
       IN  [items |-> rest.items, updated |-> missing \/ rest.updated]

RECURSIVE SyncSubs(_, _, _)
\* lines 148-159, the loop over the default's subcategories of one category
\* that the loaded schema has as its own dict
SyncSubs(items, dsubs, j) ==
  IF j > Len(dsubs)
  THEN [items |-> items, updated |-> FALSE]
  ELSE LET sk == dsubs[j].k
           sv == dsubs[j].v
           missing == ~Has(items, sk)
           added == IF missing THEN Append(items, [k |-> sk, v |-> sv]) ELSE items
           \* a non-list is reset, and updated is not set
           fixed == IF ~Get(added, sk).islist THEN Put(added, sk, sv) ELSE added
           rest == SyncSubs(fixed, dsubs, j + 1)
       IN  [items |-> rest.items, updated |-> missing \/ rest.updated]

\* SyncCategory with updated set on every category the schema already has
SyncCategory_AlwaysUpdated(cats, dk, dv) ==
  IF ~Has(cats, dk)
  THEN [cats |-> Append(cats, Alias(dk)), updated |-> TRUE]
  ELSE LET i == IndexOf(cats, dk)
           reset == cats[i].ref = "own" /\ ~cats[i].v.isdict
           e == IF reset THEN Alias(dk) ELSE cats[i]
       IN  IF e.ref = "default"
           THEN [cats |-> [cats EXCEPT ![i] = e], updated |-> TRUE]
           ELSE LET r == SyncSubs(e.v.items, dv.items, 1)
                IN  [cats |-> [cats EXCEPT ![i] = Own(dk, DictOf(r.items))],
                     updated |-> TRUE]

\* lines 134-159, one iteration of the loop over the default's categories
SyncCategory(cats, dk, dv) ==
  IF ~Has(cats, dk)
  THEN [cats |-> Append(cats, Alias(dk)), updated |-> TRUE]
  ELSE LET i == IndexOf(cats, dk)
           reset == cats[i].ref = "own" /\ ~cats[i].v.isdict
           e == IF reset THEN Alias(dk) ELSE cats[i]
       IN  IF e.ref = "default"
           \* categories[category] is the default's own dict: every
           \* subcategory is in it and is a list
           THEN [cats |-> [cats EXCEPT ![i] = e], updated |-> reset]
           ELSE LET r == SyncSubs(e.v.items, dv.items, 1)
                IN  [cats |-> [cats EXCEPT ![i] = Own(dk, DictOf(r.items))],
                     updated |-> r.updated]

RECURSIVE SyncFrom(_, _, _)
SyncFrom(cats, defaults, i) ==
  IF i > Len(defaults)
  THEN [cats |-> cats, updated |-> FALSE]
  ELSE LET r == SyncCategory(cats, defaults[i].k, defaults[i].v)
           rest == SyncFrom(r.cats, defaults, i + 1)
       IN  [cats |-> rest.cats, updated |-> r.updated \/ rest.updated]

\* the reconciled schema and the `updated` flag (the save is the caller's)
sync_categories(cats, defaults) == SyncFrom(cats, defaults, 1)

(***************************************************************************)
(* FileOrganizer.organise_downloads: the search for the extension          *)
(***************************************************************************)
RECURSIVE ScanSubs(_, _, _)
\* the inner loop: the index of the first subcategory whose list holds ext,
\* 0 when none does, -1 when `ext in extensions` raises TypeError
ScanSubs(items, ext, j) ==
  IF j > Len(items) THEN 0
  ELSE IF ~items[j].v.islist THEN -1
  ELSE IF \E n \in DOMAIN items[j].v.exts : items[j].v.exts[n] = ext THEN j
  ELSE ScanSubs(items, ext, j + 1)

RECURSIVE ScanCats_LastMatch(_, _, _)
\* ScanCats without the breaks of lines 237 and 239: a later category that
\* matches replaces an earlier one
ScanCats_LastMatch(doc, ext, i) ==
  IF i > Len(doc) THEN [kind |-> "unmatched", i |-> 0, j |-> 0]
  ELSE IF ~doc[i].v.isdict THEN [kind |-> "AttributeError", i |-> i, j |-> 0]
  ELSE LET j == ScanSubs(doc[i].v.items, ext, 1)
           rest == ScanCats_LastMatch(doc, ext, i + 1)
       IN  IF j = -1 THEN [kind |-> "TypeError", i |-> i, j |-> 0]
           ELSE IF rest.kind = "match" \/ j = 0 THEN rest
           ELSE [kind |-> "match", i |-> i, j |-> j]

RECURSIVE ScanCats(_, _, _)
\* the outer loop over self.categories.items()
ScanCats(doc, ext, i) ==
  IF i > Len(doc) THEN [kind |-> "unmatched", i |-> 0, j |-> 0]
  ELSE IF ~doc[i].v.isdict THEN [kind |-> "AttributeError", i |-> i, j |-> 0]
  ELSE LET j == ScanSubs(doc[i].v.items, ext, 1)
       IN  IF j = -1 THEN [kind |-> "TypeError", i |-> i, j |-> 0]
           ELSE IF j > 0 THEN [kind |-> "match", i |-> i, j |-> j]
           ELSE ScanCats(doc, ext, i + 1)

Resolve(doc, ext) == ScanCats(doc, ext, 1)

(***************************************************************************)
(* Inputs of the extension variant                                         *)
(***************************************************************************)
\* bound: how many files the watched folder holds
MaxFiles == 2

s_tmp == <<".", "t", "m", "p">>
s_pdf == <<".", "p", "d", "f">>
s_exe == <<".", "e", "x", "e">>
s_run == <<".", "r", "u", "n">>
s_xyz == <<".", "x", "y", "z">>
s_Subcategory == <<"S", "u", "b", "c", "a", "t", "e", "g", "o", "r", "y">>
s_Installers == <<"I", "n", "s", "t", "a", "l", "l", "e", "r", "s">>
s_Scripts == <<"S", "c", "r", "i", "p", "t", "s">>
s_Mine == <<"M", "i", "n", "e">>

\* a category of the document's own, first in the document
UserEntries ==
  { <<>>,
    <<Cat("TestCategory", <<Sub(s_Subcategory, <<s_tmp, s_pdf>>)>>)>>,
    <<[k |-> "TestCategory", v |-> NotADict]>>,
    <<[k |-> "TestCategory", v |-> DictOf(<<[k |-> s_Subcategory, v |-> NotAList]>>)]>> }

\* what the document holds for the default category "Executables"
ExecutablesEntries ==
  { <<>>,
    <<[k |-> "Executables", v |-> NotADict]>>,
    <<Cat("Executables", <<>>)>>,
    <<Cat("Executables", <<Sub(s_Mine, <<s_run>>), Sub(s_Installers, <<s_exe, s_run>>)>>)>>,
    <<Cat("Executables", <<[k |-> s_Installers, v |-> NotAList],
                           Sub(s_Scripts, <<<<".", "b", "a", "t">>, <<".", "s", "h">>>>)>>)>>,
    <<DefaultCategories[3]>> }

\* what the document holds for "Other"
OtherEntries ==
  { <<>>,
    <<Cat("Other", <<>>)>>,
    <<Cat("Other", <<Sub(s_xyz, <<>>)>>)>>,
    <<Cat("Other", <<Sub(s_xyz, <<<<".", "q">>>>)>>)>> }

\* the other default categories: absent, or present in the reverse of the
\* default's order
RestEntries ==
  { <<>>,
    <<DefaultCategories[7], DefaultCategories[6], DefaultCategories[5],
      DefaultCategories[4], DefaultCategories[2], DefaultCategories[1]>> }

\* the schema documents a run may find on disk
Docs ==
  { u \o e \o o \o r :
      u \in UserEntries, e \in ExecutablesEntries, o \in OtherEntries, r \in RestEntries }

\* the names of the files the watched folder may hold
FilePool ==
  { <<"a", ".", "P", "D", "F">>,
    <<"b", ".", "c", "s", "v">>,
    <<"c", ".", "x", "y", "z">>,
    <<".", "h", "i", "d", "d", "e", "n">> }

\* every order listdir() may return the names in
RECURSIVE Orders(_)
Orders(S) ==
  IF S = {} THEN {<<>>}
  ELSE UNION { { <<x>> \o t : t \in Orders(S \ {x}) } : x \in S }

NoCall ==
  [op |-> "none", arg |-> <<>>, updated |-> FALSE, file |-> <<>>, ext |-> <<>>,
   kind |-> "", dest |-> <<>>, ops |-> <<>>, raised |-> ""]

(***************************************************************************)
(* The extension variant's operations                                      *)
(***************************************************************************)
\* FileOrganizer.save_categories: the file after the call; open() failing
\* leaves it as it was (and the call raises)
save_categories(cats, defaults, ok, file) ==
  IF ok THEN [exists |-> TRUE, doc |-> Dump(cats, defaults)] ELSE file

\* FileOrganizer.load_categories, without the save
load_categories(file, defaults) ==
  IF file.exists
  THEN sync_categories(Load(file.doc), defaults)
  ELSE [cats |-> ShallowCopy(defaults), updated |-> TRUE]

\* FileOrganizer.__init__ : load_categories, sync_categories and the save
Construct(saveOk) ==
  /\ program = "ext"
  /\ pc = "new"
  /\ LET r == load_categories(json_file, default_categories)
         failed == r.updated /\ ~saveOk
     IN  /\ pc' = IF failed THEN "raised" ELSE "ready"
         /\ categories' = IF failed THEN categories ELSE r.cats
         /\ json_file' = IF r.updated
                         THEN save_categories(r.cats, default_categories, saveOk, json_file)
                         ELSE json_file
         /\ last' = [NoCall EXCEPT !.op = "load",
                                   !.arg = json_file.doc,
                                   !.updated = json_file.exists /\ r.updated,
                                   !.ops = IF r.updated THEN <<"save_categories">> ELSE <<>>,
                                   !.raised = IF failed THEN "OSError" ELSE ""]
  /\ UNCHANGED <<program, listing, default_categories, location, dirs, kwvars>>

\* organizer.sync_categories(organizer.categories): reconciling the schema
\* that load_categories returned once more
SyncAgain(saveOk) ==
  /\ program = "ext"
  /\ pc = "ready"
  /\ LET r == sync_categories(categories, default_categories)
         failed == r.updated /\ ~saveOk
     IN  /\ categories' = r.cats
         /\ json_file' = IF r.updated
                         THEN save_categories(r.cats, default_categories, saveOk, json_file)
                         ELSE json_file
         /\ pc' = IF failed THEN "raised" ELSE "ready"
         /\ last' = [NoCall EXCEPT !.op = "sync",
                                   !.arg = Dump(categories, default_categories),
                                   !.updated = r.updated,
                                   !.ops = IF r.updated THEN <<"save_categories">> ELSE <<>>,
                                   !.raised = IF failed THEN "OSError" ELSE ""]
  /\ UNCHANGED <<program, listing, default_categories, location, dirs, kwvars>>

\* organize_files_in_directory, line 300: the listing is taken once
StartPass ==
  /\ program = "ext"
  /\ pc = "ready"
  /\ \E order \in Orders({f \in DOMAIN location : location[f] = <<>>}) :
       /\ listing' = order
       /\ pc' = IF order = <<>> THEN "done" ELSE "organizing"
  /\ last' = [NoCall EXCEPT !.op = "listdir"]
  /\ UNCHANGED <<program, json_file, default_categories, categories, location, dirs, kwvars>>

\* lines 245-249: the schema and the default after "Other" has learnt ext
LearnOther(cats, defaults, ext) ==
  LET cats1 == IF Has(cats, "Other") THEN cats
               ELSE Append(cats, Own("Other", DictOf(<<>>)))
      i == IndexOf(cats1, "Other")
      other == Deref(cats1[i], defaults)
      learnt == DictOf(Append(other.items, [k |-> ext, v |-> ListOf(<<>>)]))
  IN  IF Has(other.items, ext)
      THEN [cats |-> cats1, defaults |-> defaults]
      ELSE IF cats1[i].ref = "default"
      \* self.categories["Other"] is default_categories["Other"] itself
      THEN [cats |-> cats1, defaults |-> Put(defaults, "Other", learnt)]
      ELSE [cats |-> [cats1 EXCEPT ![i] = Own("Other", learnt)], defaults |-> defaults]

\* lines 226-237: the item matched subcategory j of category i.  makedirs
\* (line 228) is outside the try: when it fails the call raises and no move
\* is attempted; a failing move (lines 230-236) is caught
MoveMatched(file, doc, m, mkdirOk, moveOk) ==
  LET category_path == <<doc[m.i].k, doc[m.i].v.items[m.j].k>>
      makes == category_path \notin dirs
      made == makes /\ mkdirOk
      moves == ~makes \/ mkdirOk
  IN  /\ dirs' = IF made THEN dirs \cup {<<doc[m.i].k>>, category_path} ELSE dirs
      /\ location' = IF moves /\ moveOk THEN [location EXCEPT ![file] = category_path]
                     ELSE location
      /\ last' = [NoCall EXCEPT !.op = "organise", !.arg = doc, !.file = file,
                                !.ext = lower(splitext_ext(file)), !.kind = "match",
                                !.dest = category_path,
                                !.ops = (IF makes THEN <<"makedirs">> ELSE <<>>)
                                          \o (IF moves THEN <<"move">> ELSE <<>>),
                                !.raised = IF moves THEN "" ELSE "OSError"]
      /\ UNCHANGED <<json_file, default_categories, categories>>

\* lines 242-265: no subcategory list holds the extension
MoveUnmatched(file, doc, saveOk, mkdirOk, moveOk) ==
  LET ext == lower(splitext_ext(file))
      l == LearnOther(categories, default_categories, ext)
      other_path == <<"Other">>
      makes == saveOk /\ other_path \notin dirs
      made == makes /\ mkdirOk
      \* the save (line 251) and makedirs (line 255) are outside the try;
      \* line 256 reads category_path, which this branch never assigned
      raised == IF ~saveOk THEN "OSError"
                ELSE IF makes /\ ~mkdirOk THEN "OSError"
                ELSE IF made THEN "UnboundLocalError" ELSE ""
      moves == raised = ""
  IN  /\ categories' = l.cats
      /\ default_categories' = l.defaults
      /\ json_file' = save_categories(l.cats, l.defaults, saveOk, json_file)
      /\ dirs' = IF made THEN dirs \cup {other_path} ELSE dirs
      /\ location' = IF moves /\ moveOk THEN [location EXCEPT ![file] = other_path]
                     ELSE location
      /\ last' = [NoCall EXCEPT !.op = "organise", !.arg = doc, !.file = file,
                                !.ext = ext, !.kind = "unmatched",
                                !.dest = other_path,
                                !.ops = <<"save_categories">>
                                          \o (IF makes THEN <<"makedirs">> ELSE <<>>)
                                          \o (IF moves THEN <<"move">> ELSE <<>>),
                                !.raised = raised]

\* the loop over self.categories raised before any match
ScanRaised(file, doc, m) ==
  /\ last' = [NoCall EXCEPT !.op = "organise", !.arg = doc, !.file = file,
                            !.ext = lower(splitext_ext(file)), !.kind = m.kind,
                            !.raised = m.kind]
  /\ UNCHANGED <<json_file, default_categories, categories, location, dirs>>

\* one turn of organize_files_in_directory's loop: organise_downloads on the
\* next file of the listing; an exception it lets through ends the pass
OrganiseDownloads(saveOk, mkdirOk, moveOk) ==
  /\ program = "ext"
  /\ pc = "organizing"
  /\ listing # <<>>
  /\ LET file == Head(listing)
         doc == Dump(categories, default_categories)
         m == Resolve(doc, lower(splitext_ext(file)))
     IN  CASE m.kind = "match" -> MoveMatched(file, doc, m, mkdirOk, moveOk)
           [] m.kind = "unmatched" -> MoveUnmatched(file, doc, saveOk, mkdirOk, moveOk)
           [] OTHER -> ScanRaised(file, doc, m)
  /\ listing' = Tail(listing)
  /\ pc' = IF last'.raised # "" THEN "raised"
           ELSE IF Tail(listing) = <<>> THEN "done" ELSE "organizing"
  /\ UNCHANGED <<program, kwvars>>

ExtInit ==
  /\ pc = "new"
  /\ listing = <<>>
  /\ json_file \in {[exists |-> FALSE, doc |-> <<>>]}
                     \cup {[exists |-> TRUE, doc |-> d] : d \in Docs}
  /\ default_categories = DefaultCategories
  /\ categories = <<>>
  /\ \E files \in SUBSET FilePool :
       /\ Cardinality(files) <= MaxFiles
       /\ location = [f \in files |-> <<>>]
  /\ dirs \in {{}, {<<"Other">>}}
  /\ last = NoCall

ExtNext ==
  \/ \E saveOk \in BOOLEAN : Construct(saveOk)
  \/ \E saveOk \in BOOLEAN : SyncAgain(saveOk)
  \/ StartPass
  \/ \E saveOk \in BOOLEAN, mkdirOk \in BOOLEAN, moveOk \in BOOLEAN :
       OrganiseDownloads(saveOk, mkdirOk, moveOk)

(***************************************************************************)
(* Paths (posixpath).  A path is [abs, parts]: whether it starts with a    *)
(* separator, and its non-empty components in order.                       *)
(***************************************************************************)
Dot == <<".">>

DotDot == <<".", ".">>

\* os.getcwd()
Cwd == << <<"c", "w", "d">> >>

\* the place of the first "/" of s, 0 when it has none
FirstSep(s) ==
  IF \E i \in DOMAIN s : s[i] = "/"
  THEN CHOOSE i \in DOMAIN s : s[i] = "/" /\ \A j \in 1..(i - 1) : s[j] # "/"
  ELSE 0

RECURSIVE Parts(_)
\* s.split('/') without the empty components
Parts(s) ==
  IF s = <<>> THEN <<>>
  ELSE LET i == FirstSep(s)
       IN  IF i = 0 THEN <<s>>
           ELSE (IF i = 1 THEN <<>> ELSE <<SubSeq(s, 1, i - 1)>>)
                  \o Parts(SubSeq(s, i + 1, Len(s)))

\* os.path.join(base, name)
join(base, name) ==
  IF name # <<>> /\ name[1] = "/"
  THEN [abs |-> TRUE, parts |-> Parts(name)]
  ELSE [abs |-> base.abs, parts |-> base.parts \o Parts(name)]

\* os.path.basename of a path that does not end in a separator
basename(p) == p.parts[Len(p.parts)]

RECURSIVE NormInto(_, _, _)
\* posixpath.normpath's loop over the components
NormInto(stack, parts, isabs) ==
  IF parts = <<>> THEN stack
  ELSE LET c == Head(parts)
       IN  IF c = Dot THEN NormInto(stack, Tail(parts), isabs)
           ELSE IF c # DotDot
                   \/ (~isabs /\ stack = <<>>)
                   \/ (stack # <<>> /\ stack[Len(stack)] = DotDot)
           THEN NormInto(Append(stack, c), Tail(parts), isabs)
           ELSE IF stack # <<>>
           THEN NormInto(SubSeq(stack, 1, Len(stack) - 1), Tail(parts), isabs)
           ELSE NormInto(stack, Tail(parts), isabs)

\* os.path.abspath
abspath(p) ==
  [abs |-> TRUE,
   parts |-> NormInto(<<>>, IF p.abs THEN p.parts ELSE Cwd \o p.parts, TRUE)]

\* the components commonpath compares: the "." ones dropped, ".." kept
NoDots(parts) == SelectSeq(parts, LAMBDA c : c # Dot)

IsPrefix(x, y) == Len(x) <= Len(y) /\ SubSeq(y, 1, Len(x)) = x

\* os.path.commonpath([a, b]) for two paths that are both absolute or both
\* relative
commonpath(a, b) ==
  LET x == NoDots(a.parts)
      y == NoDots(b.parts)
      n == CHOOSE k \in 0..Len(x) :
             /\ IsPrefix(SubSeq(x, 1, k), y)
             /\ \A m \in (k + 1)..Len(x) : ~IsPrefix(SubSeq(x, 1, m), y)
  IN  [abs |-> a.abs, parts |-> SubSeq(x, 1, n)]

\* shutil._destinsrc(src, dst): dst is src or lies under it
destinsrc(src, dst) == IsPrefix(abspath(src).parts, abspath(dst).parts)

(***************************************************************************)
(* The keyword variant's mapping                                           *)
(***************************************************************************)
KwCat(name, keywords) == [k |-> name, v |-> keywords]

s_Miscellaneous == <<"M", "i", "s", "c", "e", "l", "l", "a", "n", "e", "o", "u", "s">>

\* MappingManager.load_mapping: the mapping used when the file is absent
DefaultMapping ==
  <<
    KwCat(<<"U", "n", "i", "v", "e", "r", "s", "i", "t", "y">>, <<<<"U", "O", "W">>,
      <<"S", "c", "a", "n", "n", "e", "d", " ", "D", "o", "c", "u", "m", "e", "n", "t", "s">>,
      <<"S", "u", "p", "p", "o", "r", "t", "i", "n", "g", "D", "o", "c", "u", "m", "e", "n", "t", "a", "t", "i", "o", "n">>>>),
    KwCat(<<"P", "e", "r", "s", "o", "n", "a", "l">>, <<<<"i", "n", "v", "i", "t", "a", "t", "i", "o", "n">>,
      <<"2", "1", "s", "t">>>>),
    KwCat(<<"G", "a", "m", "i", "n", "g">>, <<<<"G", "a", "m", "i", "n", "g">>,
      <<"W", "B", " ", "G", "a", "m", "e", "s">>,
      <<"H", "o", "r", "i", "z", "o", "n", " ", "F", "o", "r", "b", "i", "d", "d", "e", "n", " ", "W", "e", "s", "t">>,
      <<"M", "y", " ", "G", "a", "m", "e", "s">>>>),
    KwCat(<<"M", "i", "s", "c", "e", "l", "l", "a", "n", "e", "o", "u", "s">>, <<>>),
    KwCat(<<"C", "o", "d", "e">>, <<<<"P", "y", "t", "h", "o", "n", " ", "S", "c", "r", "i", "p", "t", "s">>,
      <<"G", "i", "t", "H", "u", "b">>,
      <<"Q", "t", "D", "e", "s", "i", "g", "n", "S", "t", "u", "d", "i", "o">>,
      <<"R", "o", "b", "o", "c", "o", "d", "e">>,
      <<"V", "i", "s", "u", "a", "l", " ", "S", "t", "u", "d", "i", "o", " ", "2", "0", "2", "2">>>>),
    KwCat(<<"S", "o", "f", "t", "w", "a", "r", "e">>, <<<<"B", "l", "a", "c", "k", "m", "a", "g", "i", "c", " ", "D", "e", "s", "i", "g", "n">>,
      <<"M", "A", "X", "O", "N">>,
      <<"C", "u", "s", "t", "o", "m", " ", "O", "f", "f", "i", "c", "e", " ", "T", "e", "m", "p", "l", "a", "t", "e", "s">>>>),
    KwCat(<<"B", "a", "c", "k", "u", "p", "s">>, <<<<"A", "n", "k", "i", " ", "B", "a", "c", "k", "u", "p">>>>)
  >>

\* line 87: any(keyword.lower() in item.lower() for keyword in keywords)
AnyKeyword(keywords, item) ==
  \E n \in DOMAIN keywords : IsSubstring(lower(keywords[n]), lower(item))

RECURSIVE FirstCategory(_, _, _)
\* lines 86-92: the index of the first category with a matching keyword, 0
\* when there is none
FirstCategory(m, item, i) ==
  IF i > Len(m) THEN 0
  ELSE IF AnyKeyword(m[i].v, item) THEN i
  ELSE FirstCategory(m, item, i + 1)

\* MappingManager.add_category
add_category(m, category, keyword) ==
  LET m1 == IF Has(m, category) THEN m
            ELSE Append(m, KwCat(category, <<>>))
  IN  [m1 EXCEPT ![IndexOf(m1, category)].v = Append(@, keyword)]

\* MappingManager.save_mapping: the file after the call
save_mapping(m, ok, file) ==
  IF ok THEN [exists |-> TRUE, doc |-> m] ELSE file

\* MappingManager.load_mapping
load_mapping(file) == IF file.exists THEN file.doc ELSE DefaultMapping

\* str.strip() for the blanks a typed answer may carry
RECURSIVE strip(_)
strip(s) ==
  IF s = <<>> THEN s
  ELSE IF s[1] = " " THEN strip(Tail(s))
  ELSE IF s[Len(s)] = " " THEN strip(SubSeq(s, 1, Len(s) - 1))
  ELSE s

(***************************************************************************)
(* Inputs of the keyword variant                                           *)
(***************************************************************************)
\* bound: how many entries the source folder holds before the run
MaxItems == 2

\* bound: how many entries the source folder holds before a run that finds
\* no mapping file and lists the seven folders of the default mapping too
MaxItemsFirstRun == 1

s_UOW == <<"U", "O", "W">>
s_uow == <<"u", "o", "w">>
s_Zed == <<"Z", "e", "d">>
s_Alpha == <<"A", "l", "p", "h", "a">>
s_University == <<"U", "n", "i", "v", "e", "r", "s", "i", "t", "y">>
s_d == <<"d">>
s_f == <<"f">>

\* the mapping documents a run may find on disk
KwDocs ==
  { <<KwCat(s_Zed, <<s_uow>>), KwCat(s_Alpha, <<s_UOW, s_d>>)>>,
    <<KwCat(s_University, <<s_UOW>>)>> }

\* the entries the source folder may hold: two files and two directories
KwItemPool ==
  { [name |-> <<"x", "_", "U", "o", "w">>, isdir |-> FALSE],
    [name |-> s_f, isdir |-> FALSE],
    [name |-> s_d, isdir |-> TRUE],
    [name |-> <<"g">>, isdir |-> TRUE] }

\* the source folders: absolute as __main__ gives it, or relative
SourceFolders ==
  { [abs |-> TRUE, parts |-> << <<"h">>, <<"D", "o", "c", "s">> >>],
    [abs |-> FALSE, parts |-> << <<"D", "o", "c", "s">> >>] }

\* what input() may return for an item: Enter, a new name with blanks
\* around it, the item's own name, ".", and names with a separator
Answers(item) ==
  { <<>>,
    <<" ", "N", "e", "w", " ">>,
    item,
    <<".">>,
    <<"x", "/", ".", ".", "/">> \o item,
    item \o <<"/", "s">> }

KwNoCall ==
  [op |-> "none", item |-> <<>>, isdir |-> FALSE, skipped |-> FALSE,
   matched |-> FALSE, category |-> <<>>, src |-> <<>>, dst |-> <<>>,
   invoked |-> FALSE, ondisk |-> FALSE, answer |-> <<>>, arg |-> <<>>,
   ops |-> <<>>, raised |-> ""]

(***************************************************************************)
(* The keyword variant's operations                                        *)
(***************************************************************************)
\* whether the first n components of target name an existing file
FileAt(target, n, its) ==
  LET p == abspath([abs |-> target.abs, parts |-> SubSeq(target.parts, 1, n)]).parts
  IN  \E f \in DOMAIN its : ~its[f].isdir /\ its[f].at = p

\* what os.makedirs(target, exist_ok=True) raises: NotADirectoryError when a
\* directory is to be made under a file, FileExistsError when the target
\* itself is a file, "" when it returns
MakedirsError(target, its) ==
  IF \E n \in 1..(Len(target.parts) - 1) : FileAt(target, n, its)
  THEN "NotADirectoryError"
  ELSE IF FileAt(target, Len(target.parts), its) THEN "FileExistsError"
  ELSE ""

\* whether p is a directory: the source folder, one of its ancestors, or a
\* directory among the entries
DirAt(p, its) ==
  \/ IsPrefix(p, abspath(source_folder).parts)
  \/ \E g \in DOMAIN its : its[g].isdir /\ its[g].at = p

\* the directories os.makedirs(target, exist_ok=True) makes: every missing
\* one on the way to the target, up to the component that is a file
MakedirsMade(target, its) ==
  LET at(n) == abspath([abs |-> target.abs, parts |-> SubSeq(target.parts, 1, n)]).parts
      files == {n \in 1..Len(target.parts) : FileAt(target, n, its)}
      reached == {n \in 1..Len(target.parts) : \A k \in files : n < k}
  IN  {at(n) : n \in {k \in reached : ~DirAt(at(k), its)}}

RECURSIVE JoinSep(_)
\* '/'.join(parts)
JoinSep(parts) ==
  IF parts = <<>> THEN <<>>
  ELSE IF Len(parts) = 1 THEN parts[1]
  ELSE parts[1] \o <<"/">> \o JoinSep(Tail(parts))

\* the name an entry at path p goes by: its path below the source folder
NameOf(p) ==
  LET base == abspath(source_folder).parts
  IN  IF IsPrefix(base, p) THEN JoinSep(SubSeq(p, Len(base) + 1, Len(p)))
      ELSE <<"/">> \o JoinSep(p)

\* the entries after os.makedirs has made the directories of made
WithMade(its, made) ==
  LET names == {NameOf(p) : p \in made}
  IN  [g \in DOMAIN its \cup names |->
         IF g \in DOMAIN its THEN its[g]
         ELSE [isdir |-> TRUE, at |-> CHOOSE p \in made : NameOf(p) = g]]

\* the first guard of FileMover.move_item, line 49
SamePath(item_path, destination_path) ==
  abspath(item_path) = abspath(destination_path)

\* the second guard of FileMover.move_item, line 54
IntoItself(item_path, destination_path, isdir) ==
  isdir /\ commonpath(item_path, destination_path) = abspath(item_path)

\* FileMover.move_item: what the call did.  shutil.move refuses to move a
\* directory into itself, and may fail for reasons of the file system
move_item(item_path, target_folder, isdir, its, moveOk) ==
  LET destination_path == [abs |-> target_folder.abs,
                           parts |-> Append(target_folder.parts, basename(item_path))]
      r == [src |-> abspath(item_path).parts, dst |-> abspath(destination_path).parts,
            invoked |-> FALSE, moved |-> FALSE, ops |-> <<"makedirs">>, raised |-> "",
            made |-> MakedirsMade(target_folder, its)]
      err == MakedirsError(target_folder, its)
  IN  IF err # ""
      THEN [r EXCEPT !.raised = err]
      ELSE IF SamePath(item_path, destination_path) THEN r
      ELSE IF IntoItself(item_path, destination_path, isdir) THEN r
      ELSE IF isdir /\ destinsrc(item_path, destination_path)
      THEN [r EXCEPT !.invoked = TRUE, !.ops = <<"makedirs", "shutil.move">>,
                     !.raised = "shutil.Error"]
      ELSE IF moveOk
      THEN [r EXCEPT !.invoked = TRUE, !.ops = <<"makedirs", "shutil.move">>,
                     !.moved = TRUE]
      ELSE [r EXCEPT !.invoked = TRUE, !.ops = <<"makedirs", "shutil.move">>,
                     !.raised = "OSError"]

\* the entries after the call: the directories os.makedirs made are there,
\* and src has been renamed to dst when shutil.move did it
Moved(its, r) ==
  LET with == WithMade(its, r.made)
  IN  IF ~r.moved THEN with
      ELSE [g \in DOMAIN with |->
              IF IsPrefix(r.src, with[g].at)
              THEN [with[g] EXCEPT !.at = r.dst \o SubSeq(@, Len(r.src) + 1, Len(@))]
              ELSE with[g]]

\* MappingManager.__init__
KwConstruct ==
  /\ program = "kw"
  /\ pc = "new"
  /\ mapping' = load_mapping(mapping_file)
  /\ pc' = "ready"
  /\ klast' = [KwNoCall EXCEPT !.op = "load"]
  /\ UNCHANGED <<program, listing, mapping_file, source_folder, entries, unvisited, extvars>>

RECURSIVE EnsureFolders(_, _, _)
\* FolderOrganizer.organize, lines 73-74: the category folders are made one
\* by one, from category i on, up to the first that cannot be made
EnsureFolders(m, i, its) ==
  IF i > Len(m) THEN [its |-> its, raised |-> ""]
  ELSE LET target == join(source_folder, m[i].k)
           raised == MakedirsError(target, its)
           with == WithMade(its, MakedirsMade(target, its))
       IN  IF raised # "" THEN [its |-> with, raised |-> raised]
           ELSE EnsureFolders(m, i + 1, with)

\* os.listdir(source_folder): the names directly in the source folder
Listed(its) ==
  {g \in DOMAIN its : its[g].at = Append(abspath(source_folder).parts, g)}

\* FolderOrganizer.organize, lines 70-76: the category folders are made and
\* the listing is taken once.  os.listdir gives the names in arbitrary
\* order: the snapshot is kept as the set of names, and each turn of the
\* loop visits any name of it that is left
KwStartOrganize ==
  /\ program = "kw"
  /\ pc = "ready"
  /\ LET r == EnsureFolders(mapping, 1, entries)
     IN  /\ entries' = r.its
         /\ IF r.raised # ""
            THEN /\ pc' = "raised"
                 /\ klast' = [KwNoCall EXCEPT !.op = "listdir", !.raised = r.raised]
                 /\ UNCHANGED unvisited
            ELSE /\ pc' = IF Listed(r.its) = {} THEN "done" ELSE "organizing"
                 /\ unvisited' = Listed(r.its)
                 /\ klast' = [KwNoCall EXCEPT !.op = "listdir"]
  /\ UNCHANGED <<program, listing, mapping_file, mapping, source_folder, extvars>>

\* whether the document on disk has keyword under category
HasKeyword(doc, category, keyword) ==
  Has(doc, category) /\ \E n \in DOMAIN Get(doc, category) : Get(doc, category)[n] = keyword

\* lines 86-92: the item matched category i
KwMoveMatched(item, i, moveOk) ==
  LET item_path == join(source_folder, item)
      r == move_item(item_path, join(source_folder, mapping[i].k),
                     entries[item].isdir, entries, moveOk)
  IN  /\ entries' = Moved(entries, r)
      /\ klast' = [KwNoCall EXCEPT !.op = "organize", !.item = item,
                                   !.isdir = entries[item].isdir, !.matched = TRUE,
                                   !.category = mapping[i].k, !.arg = mapping,
                                   !.src = r.src, !.dst = r.dst, !.invoked = r.invoked,
                                   !.ops = <<"move_item">> \o r.ops,
                                   !.raised = r.raised]
      /\ UNCHANGED <<mapping, mapping_file>>

\* HandleUncategorized with the save done before the move, as the extension
\* variant does it
HandleUncategorized_SaveFirst(item, answer, moveOk, saveOk) ==
  LET new_category == IF strip(answer) = <<>> THEN s_Miscellaneous ELSE strip(answer)
      added == add_category(mapping, new_category, item)
      saved == save_mapping(added, saveOk, mapping_file)
      item_path == join(source_folder, item)
      r == move_item(item_path, join(source_folder, new_category),
                     entries[item].isdir, entries, moveOk)
  IN  /\ mapping' = added
      /\ entries' = IF saveOk THEN Moved(entries, r) ELSE entries
      /\ mapping_file' = saved
      /\ klast' = [KwNoCall EXCEPT !.op = "organize", !.item = item,
                                   !.isdir = entries[item].isdir,
                                   !.category = new_category, !.arg = mapping,
                                   !.answer = answer,
                                   !.src = r.src, !.dst = r.dst,
                                   !.invoked = saveOk /\ r.invoked,
                                   !.ondisk = HasKeyword(saved.doc, new_category, item),
                                   !.ops = <<"add_category", "save_mapping">>
                                             \o (IF saveOk THEN <<"move_item">> \o r.ops
                                                 ELSE <<>>),
                                   !.raised = IF ~saveOk THEN "OSError" ELSE r.raised]

\* FolderOrganizer.handle_uncategorized_item, lines 101-103: a category
\* folder is passed over
SkipsCategoryFolder(item) == entries[item].isdir /\ Has(mapping, item)

\* the turn that passes over item
Skip(item) ==
  /\ klast' = [KwNoCall EXCEPT !.op = "organize", !.isdir = TRUE, !.skipped = TRUE]
  /\ UNCHANGED <<mapping, mapping_file, entries>>

\* FolderOrganizer.handle_uncategorized_item, lines 98-118
HandleUncategorized(item, answer, moveOk, saveOk) ==
  IF SkipsCategoryFolder(item) THEN Skip(item) ELSE
  LET new_category == IF strip(answer) = <<>> THEN s_Miscellaneous ELSE strip(answer)
      added == add_category(mapping, new_category, item)
      item_path == join(source_folder, item)
      r == move_item(item_path, join(source_folder, new_category),
                     entries[item].isdir, entries, moveOk)
      saves == r.raised = ""
  IN  /\ mapping' = added
      /\ entries' = Moved(entries, r)
      /\ mapping_file' = IF saves THEN save_mapping(added, saveOk, mapping_file)
                         ELSE mapping_file
      /\ klast' = [KwNoCall EXCEPT !.op = "organize", !.item = item,
                                   !.isdir = entries[item].isdir,
                                   !.category = new_category, !.arg = mapping,
                                   !.answer = answer,
                                   !.src = r.src, !.dst = r.dst, !.invoked = r.invoked,
                                   !.ondisk = HasKeyword(mapping_file.doc, new_category, item),
                                   !.ops = <<"add_category", "move_item">> \o r.ops
                                             \o (IF saves THEN <<"save_mapping">> ELSE <<>>),
                                   !.raised = IF r.raised # "" THEN r.raised
                                              ELSE IF ~saveOk THEN "OSError" ELSE ""]

\* one turn of the loop of FolderOrganizer.organize, lines 76-96; an
\* exception ends the pass
KwOrganizeItem ==
  /\ program = "kw"
  /\ pc = "organizing"
  /\ \E item \in unvisited :
       /\ LET i == FirstCategory(mapping, item, 1)
          IN  IF SkipsCategoryFolder(item)
              THEN Skip(item)
              ELSE IF i > 0
              THEN \E moveOk \in BOOLEAN : KwMoveMatched(item, i, moveOk)
              ELSE \E answer \in Answers(item), moveOk \in BOOLEAN, saveOk \in BOOLEAN :
                     HandleUncategorized(item, answer, moveOk, saveOk)
       /\ unvisited' = unvisited \ {item}
       /\ pc' = IF klast'.raised # "" THEN "raised"
                ELSE IF unvisited = {item} THEN "done" ELSE "organizing"
  /\ UNCHANGED <<program, listing, source_folder, extvars>>

(***************************************************************************)
(* The two programs                                                        *)
(***************************************************************************)
ExtIdle ==
  /\ json_file = [exists |-> FALSE, doc |-> <<>>]
  /\ default_categories = <<>>
  /\ categories = <<>>
  /\ location = <<>>
  /\ dirs = {}
  /\ last = NoCall

KwInit ==
  /\ pc = "new"
  /\ listing = <<>>
  /\ mapping_file \in {[exists |-> FALSE, doc |-> <<>>]}
                        \cup {[exists |-> TRUE, doc |-> d] : d \in KwDocs}
  /\ mapping = <<>>
  /\ source_folder \in SourceFolders
  /\ \E chosen \in SUBSET KwItemPool :
       /\ Cardinality(chosen) <= IF mapping_file.exists THEN MaxItems
                                ELSE MaxItemsFirstRun
       /\ entries = [g \in {c.name : c \in chosen} |->
                       [isdir |-> \E c \in chosen : c.name = g /\ c.isdir,
                        at |-> abspath(join(source_folder, g)).parts]]
  /\ unvisited = {}
  /\ klast = KwNoCall

KwIdle ==
  /\ mapping_file = [exists |-> FALSE, doc |-> <<>>]
  /\ mapping = <<>>
  /\ source_folder = [abs |-> TRUE, parts |-> <<>>]
  /\ entries = <<>>
  /\ unvisited = {}
  /\ klast = KwNoCall

KwNext ==
  \/ KwConstruct
  \/ KwStartOrganize
  \/ KwOrganizeItem

Init ==
  \/ program = "ext" /\ ExtInit /\ KwIdle
  \/ program = "kw" /\ KwInit /\ ExtIdle

Next == ExtNext \/ KwNext

Spec == Init /\ [][Next]_vars

InitExt == program = "ext" /\ ExtInit /\ KwIdle

\* the extension variant alone
SpecExt == InitExt /\ [][ExtNext]_vars

InitKw == program = "kw" /\ KwInit /\ ExtIdle

\* the keyword variant alone
SpecKw == InitKw /\ [][KwNext]_vars

(***************************************************************************)
(* Properties                                                              *)
(***************************************************************************)
\* every category's value is a dict and every subcategory's value a list
WellShaped(doc) ==
  \A i \in DOMAIN doc :
    /\ doc[i].v.isdict
    /\ \A j \in DOMAIN doc[i].v.items : doc[i].v.items[j].v.islist

InList(ext, sub) == sub.v.islist /\ \E n \in DOMAIN sub.v.exts : sub.v.exts[n] = ext

\* how often a step occurs in a call's record
Count(ops, op) == Cardinality({n \in DOMAIN ops : ops[n] = op})

\* the working schema of the extension variant, by value
Schema == Dump(categories, default_categories)

\* the extension variant resolved a file against a well-shaped schema in which
\* some subcategory list holds the file's extension
C1_ExtCase ==
  /\ last.op = "organise"
  /\ WellShaped(last.arg)
  /\ \E i \in DOMAIN last.arg : \E j \in DOMAIN last.arg[i].v.items :
       InList(last.ext, last.arg[i].v.items[j])

\* the keyword variant resolved an item that is no category folder and that
\* some keyword of the mapping is a case-insensitive substring of
C1_KwCase ==
  /\ klast.op = "organize"
  /\ ~klast.skipped
  /\ \E i \in DOMAIN klast.arg : AnyKeyword(klast.arg[i].v, klast.item)

\* the extension variant's half of the first-match policy: the file went
\* to the first subcategory, in stored order, of the first category whose
\* list holds its lower-cased extension
C1_ExtFirst ==
  /\ last.kind = "match"
  /\ last.ext = lower(splitext_ext(last.file))
  /\ \E i \in DOMAIN last.arg : \E j \in DOMAIN last.arg[i].v.items :
       /\ last.dest = <<last.arg[i].k, last.arg[i].v.items[j].k>>
       /\ InList(last.ext, last.arg[i].v.items[j])
       /\ \A i2 \in 1..i : \A j2 \in DOMAIN last.arg[i2].v.items :
            (i2 < i \/ j2 < j) => ~InList(last.ext, last.arg[i2].v.items[j2])

\* the keyword variant's half: the item went to the first category with a
\* keyword that is a case-insensitive substring of its name, by one call of
\* move_item
C1_KwFirst ==
  /\ klast.matched
  /\ Count(klast.ops, "move_item") = 1
  /\ Count(klast.ops, "shutil.move") = 1
  /\ \E i \in DOMAIN klast.arg :
       /\ klast.category = klast.arg[i].k
       /\ AnyKeyword(klast.arg[i].v, klast.item)
       /\ \A i2 \in 1..(i - 1) : ~AnyKeyword(klast.arg[i2].v, klast.item)

C1_KwReached ==
  /\ C1_KwCase
  /\ klast.category = s_Zed
  /\ \E i \in DOMAIN klast.arg :
       klast.arg[i].k = s_Alpha /\ AnyKeyword(klast.arg[i].v, klast.item)
  /\ klast.invoked

\* the first run's case of C1: with no mapping file "x_Uow" matched the
\* keyword UOW of University, the first category of the default mapping
C1_FirstRunReached ==
  /\ C1_KwCase
  /\ ~mapping_file.exists
  /\ klast.arg = DefaultMapping
  /\ klast.category = s_University
  /\ klast.invoked

\* the schema that the last load or reconciliation returned
Reconciled == (last.op = "load" /\ last.raised = "") \/ last.op = "sync"

\* C2: after reconciliation the schema has every default category, every
\* default subcategory and every default extension: e in result[C][S] for
\* every e in default[C][S].
C2_DefaultSuperset ==
  Reconciled =>
    \A c \in DOMAIN DefaultCategories :
      LET dc == DefaultCategories[c] IN
        /\ Has(Schema, dc.k)
        /\ Get(Schema, dc.k).isdict
        /\ \A d \in DOMAIN dc.v.items :
             LET ds == dc.v.items[d] IN
               /\ Has(Get(Schema, dc.k).items, ds.k)
               /\ \A n \in DOMAIN ds.v.exts :
                    InList(ds.v.exts[n], [k |-> ds.k, v |-> Get(Get(Schema, dc.k).items, ds.k)])

\* C3: reconciliation removes no well-shaped entry of the loaded schema: each
\* category that was a dict is still one, each of its subcategories that was a
\* list is still a list with every extension it had, and a category that only
\* the loaded schema has keeps its value.
C3_KeepsUserData ==
  Reconciled =>
    \A i \in DOMAIN last.arg :
      LET c == last.arg[i] IN
        /\ Has(Schema, c.k)
        /\ ~Has(DefaultCategories, c.k) => Get(Schema, c.k) = c.v
        /\ c.v.isdict =>
             /\ Get(Schema, c.k).isdict
             /\ \A j \in DOMAIN c.v.items :
                  LET sub == c.v.items[j] IN
                    sub.v.islist =>
                      /\ Has(Get(Schema, c.k).items, sub.k)
                      /\ \A n \in DOMAIN sub.v.exts :
                           InList(sub.v.exts[n],
                                  [k |-> sub.k, v |-> Get(Get(Schema, c.k).items, sub.k)])

\* C3's case: a document with a category of its own and with extensions of its
\* own under a default subcategory was loaded, and reconciliation changed it
C3_Witness ==
  /\ last.op = "load"
  /\ last.raised = ""
  /\ last.updated
  /\ Has(last.arg, "TestCategory")
  /\ Has(last.arg, "Executables")
  /\ Get(last.arg, "Executables").isdict
  /\ Has(Get(last.arg, "Executables").items, s_Installers)
  /\ InList(s_run, [k |-> s_Installers, v |-> Get(Get(last.arg, "Executables").items, s_Installers)])

\* C4: reconciling a reconciled schema again changes nothing, reports
\* updated = false and writes nothing.
C4_Idempotent ==
  last.op = "sync" =>
    /\ ~last.updated
    /\ Schema = last.arg
    /\ last.ops = <<>>
    /\ last.raised = ""

\* C4's case: the schema came from a document that the first reconciliation
\* had to add default categories to, and it was reconciled a second time
C4_Witness ==
  /\ last.op = "sync"
  /\ Has(categories, "TestCategory")
  /\ \E i \in DOMAIN categories : categories[i].ref = "default"
  /\ \E i \in DOMAIN categories : categories[i].k = "Executables" /\ categories[i].ref = "own"

\* the exceptions a failing move, folder creation or save raises
ItemFailures == {"OSError", "shutil.Error", "FileExistsError", "NotADirectoryError"}

\* C5: the pass is never ended by one item: when an item's move, the creation
\* of its destination folder or the save of the schema that belongs to it
\* fails, the failure is caught and the pass goes on to the remaining items.
C5_PassNeverAborts ==
  /\ last.op = "organise" => last.raised \notin ItemFailures
  /\ klast.op = "organize" => klast.raised \notin ItemFailures

\* the keyword variant moved an item whose destination is its own path, or a
\* directory whose destination lies inside it
C6_Case ==
  /\ klast.op = "organize"
  /\ ~klast.skipped
  /\ \/ klast.src = klast.dst
     \/ klast.isdir /\ IsPrefix(klast.src, klast.dst)

\* C6: safe move.  When the absolute destination path equals the absolute
\* source path, or the source is a directory and the destination lies inside
\* it, the underlying move is not invoked and move_item returns without
\* raising.
C6_SafeMove ==
  C6_Case => ~klast.invoked /\ klast.raised \notin {"shutil.Error", "FileExistsError", "NotADirectoryError"}

\* the extension variant handled a file whose extension no list holds, and the
\* file system failed neither the save nor a move that was attempted
C7_Case ==
  /\ last.op = "organise"
  /\ last.kind = "unmatched"
  /\ last.raised # "OSError"
  /\ Count(last.ops, "move") = 1 => location[last.file] = <<"Other">>

\* C7: unknown extension.  After organise_downloads on a file whose extension e
\* is in no subcategory list, the schema in memory and the schema on disk both
\* have Other[e] (= [] when it is new) and are otherwise unchanged, the schema
\* was saved before the move was attempted, and the file is at Other/<basename>.
C7_UnknownExtension ==
  C7_Case =>
    /\ Has(Schema, "Other")
    /\ Has(Get(Schema, "Other").items, last.ext)
    /\ ~(Has(last.arg, "Other") /\ Has(Get(last.arg, "Other").items, last.ext))
         => Get(Get(Schema, "Other").items, last.ext) = ListOf(<<>>)
    /\ \A i \in DOMAIN last.arg :
         /\ Has(Schema, last.arg[i].k)
         /\ last.arg[i].k # "Other" => Get(Schema, last.arg[i].k) = last.arg[i].v
         /\ last.arg[i].k = "Other" =>
              \A j \in DOMAIN last.arg[i].v.items :
                Get(Get(Schema, "Other").items, last.arg[i].v.items[j].k)
                  = last.arg[i].v.items[j].v
    /\ json_file.exists
    /\ json_file.doc = Schema
    /\ last.ops[1] = "save_categories"
    /\ Count(last.ops, "move") = 1
    /\ location[last.file] = <<"Other">>

\* the keyword variant handled an item that no keyword matched
C8_Case ==
  /\ klast.op = "organize"
  /\ ~klast.skipped
  /\ ~klast.matched

\* C8 as stated: the item's name is added as a keyword, the schema is saved,
\* and only then the move is attempted: when the move is attempted the schema
\* on disk already has the new keyword.
C8_PersistBeforeMove ==
  C8_Case => klast.ondisk /\ klast.ops[2] = "save_mapping"

\* C8 as the code has it: the item's name is added as a keyword under the
\* answered category (Miscellaneous for an empty answer), then the move is
\* attempted, and the schema is saved only after move_item has returned: when
\* the move is attempted the schema on disk does not have the new keyword, when
\* move_item raises it never gets it, and when the call returns the schema on
\* disk equals the schema in memory.
C8_MoveBeforePersist ==
  C8_Case =>
    /\ klast.category = IF strip(klast.answer) = <<>> THEN s_Miscellaneous
                        ELSE strip(klast.answer)
    /\ mapping = add_category(klast.arg, klast.category, klast.item)
    /\ ~klast.ondisk
    /\ klast.ops[1] = "add_category"
    /\ klast.ops[2] = "move_item"
    /\ \A n \in DOMAIN klast.ops : klast.ops[n] = "save_mapping" => n = Len(klast.ops)
    /\ klast.raised \in {"shutil.Error", "FileExistsError", "NotADirectoryError"}
         => ~HasKeyword(mapping_file.doc, klast.category, klast.item)
    /\ Count(klast.ops, "save_mapping") = 0
         => ~HasKeyword(mapping_file.doc, klast.category, klast.item)
    /\ klast.raised = "" => mapping_file.exists /\ mapping_file.doc = mapping

\* C8's case: the move of an unmatched item failed after its name had been
\* added in memory, and the schema on disk does not have it
C8_Witness ==
  /\ C8_Case
  /\ klast.invoked
  /\ klast.raised = "OSError"
  /\ Count(klast.ops, "save_mapping") = 0
  /\ HasKeyword(mapping, klast.category, klast.item)
  /\ mapping_file.exists

\* the first run's case of C8: with no mapping file an item that no keyword
\* of the default mapping matches was classified and moved, and the mapping
\* file was written after the move
C8_FirstRunReached ==
  /\ C8_Case
  /\ klast.arg = DefaultMapping
  /\ klast.invoked
  /\ klast.raised = ""
  /\ mapping_file.exists
  /\ mapping_file.doc = mapping

\* C9: when load has finished the schema document exists on disk and equals
\* the schema in memory, in either variant.
C9_LoadAgrees ==
  /\ (last.op = "load" /\ last.raised = "") => json_file.exists /\ json_file.doc = Schema
  /\ klast.op = "load" => mapping_file.exists /\ mapping_file.doc = mapping

\* C10: tolerant parse.  After the load of a schema document every category's
\* value is a dict and every subcategory's value a list, and no later
\* resolution of a file fails on a malformed entry.
C10_TolerantParse ==
  /\ (last.op = "load" /\ last.raised = "") => WellShaped(Schema)
  /\ last.op = "organise" => last.raised \notin {"AttributeError", "TypeError"}

\* C11: the default schema is never mutated: after any sequence of load,
\* reconciliation and organise_downloads calls default_categories equals its
\* compiled-in value at every level.
C11_DefaultNeverMutated ==
  program = "ext" => default_categories = DefaultCategories

====
